---- MODULE Spec2Model ----
(***************************************************************************)
(* Model of the graph module (OU4/graph.c) and of the reachability program *)
(* is_connected (OU4/is_connected.c): the loader that reads an edge-list   *)
(* file, the construction of the graph from the edge records and the       *)
(* breadth-first search find_path.                                         *)
(*                                                                         *)
(* Strings are sequences of one-character strings without the final NUL;   *)
(* a buffer the program writes a NUL into holds the character NUL.         *)
(* A node pointer is the 1-based index of the node in the graph's array;   *)
(* the C array index is that number minus one.                             *)
(***************************************************************************)
EXTENDS Integers, Sequences, FiniteSets, TLC

VARIABLES
    pc,            \* position of the program / of the harness
    g,             \* the graph (struct graph), NoGraph before graph_empty
    l,             \* the list of edge records (list *l of main)
    info,          \* the line buffer info_from_file of add_edges_to_list
    count_info,    \* the line buffer info_from_file of get_number_of_edges
    feof,          \* the stream has reached the end of the file
    nread,         \* number of lines fgets has returned so far
    edgeCount,     \* the number get_number_of_edges parsed from the count line
    edges_amount,  \* the value get_number_of_edges returned
    max_nodes,     \* the value info_from_file returned, passed to graph_empty
    lpos,          \* create_graph's position in the list l
    call,          \* the last call of an interface or of find_path
    table,         \* the table (struct table *t) of the table client
    freed,         \* the pointers the table has passed to its free functions
    stack          \* the stack (stack s) of the stack client

vars == <<pc, g, l, info, count_info, feof, nread, edgeCount, edges_amount, max_nodes, lpos, call,
          table, freed, stack>>

\* the state of the graph program
progVars == <<g, l, info, count_info, feof, nread, edgeCount, edges_amount, max_nodes, lpos>>

\* the state of the table client and of the stack client
libVars == <<table, freed, stack>>

(***************************************************************************)
(* Bounds of the model.                                                    *)
(***************************************************************************)
\* nodes a harness run stores with graph_insert_node
MaxNodes == 3
\* graph_insert_node and graph_insert_edge calls of one harness run
MaxInserts == 5
\* lines fgets returns from one file
MaxLines == 4

(***************************************************************************)
(* Program constants.                                                      *)
(***************************************************************************)
MAX_NODE_NAME_LENGTH == 40
MAX_NODE_CHAR_LENGTH == 41

NULL == "NULL"
NoGraph == [nodes |-> NULL]
NoCall == [op |-> "none"]
NoTable == [entries |-> NULL]
NoStack == [kind |-> NULL]

(***************************************************************************)
(* graph.c                                                                 *)
(***************************************************************************)

\* strcmp(a, b) == 0
StrEq(a, b) == a = b

nodes_are_equal(n1, n2) == StrEq(n1.name, n2.name)

\* array_1d_create(0, max_nodes, NULL): the array has the indices 0..max_nodes
graph_empty(max) ==
    [nodes |-> "array_1d", lo |-> 0, hi |-> max, values |-> <<>>, node_amount |-> 0]

\* return g->nodes == 0 : the array pointer is compared, not the node count
graph_is_empty(gr) == gr.nodes = NULL

graph_has_edges(gr) ==
    \E i \in 1..gr.node_amount : gr.values[i].adjacent_nodes # <<>>

\* the node graph_insert_node allocates
new_node(s) == [name |-> s, seen |-> FALSE, adjacent_nodes |-> <<>>]

\* array_1d_set_value(g->nodes, new_node, g->node_amount) is inside the array
InsertInBounds(gr) == gr.lo <= gr.node_amount /\ gr.node_amount <= gr.hi

\* variant: nothing is inserted when a node with the name is stored
graph_insert_node_unless_stored(gr, s) ==
    IF \E i \in 1..gr.node_amount : gr.values[i].name = s
    THEN gr
    ELSE [gr EXCEPT !.values = Append(@, new_node(s)), !.node_amount = @ + 1]

\* graph_insert_node when the write lands where it is read back from
graph_insert_node(gr, s) ==
    [gr EXCEPT !.values = Append(@, new_node(s)), !.node_amount = @ + 1]

\* variant: the last node with the name
graph_find_node_last(gr, s) ==
    IF \E i \in 1..gr.node_amount : StrEq(gr.values[i].name, s)
    THEN CHOOSE i \in 1..gr.node_amount :
            /\ StrEq(gr.values[i].name, s)
            /\ \A j \in (i + 1)..gr.node_amount : ~StrEq(gr.values[j].name, s)
    ELSE 0

\* first node with the name, as a pointer; NULL when there is none
graph_find_node(gr, s) ==
    IF \E i \in 1..gr.node_amount : StrEq(gr.values[i].name, s)
    THEN CHOOSE i \in 1..gr.node_amount :
            /\ StrEq(gr.values[i].name, s)
            /\ \A j \in 1..(i - 1) : ~StrEq(gr.values[j].name, s)
    ELSE 0

Found(n) == n # 0

graph_node_is_seen(gr, n) == gr.values[n].seen

graph_node_set_seen(gr, n, seen) == [gr EXCEPT !.values[n].seen = seen]

\* variant: the loop starts at the second node of the array
graph_reset_seen_from_second(gr) ==
    [gr EXCEPT !.values = [i \in 1..Len(@) |->
                              IF 1 < i /\ i <= gr.node_amount
                              THEN [@[i] EXCEPT !.seen = FALSE]
                              ELSE @[i]]]

\* for (i = array_1d_low; i < node_amount; i++) the node's seen = false
graph_reset_seen(gr) ==
    [gr EXCEPT !.values = [i \in 1..Len(@) |->
                              IF i <= gr.node_amount
                              THEN [@[i] EXCEPT !.seen = FALSE]
                              ELSE @[i]]]

\* variant: n2 is inserted at the end of the list
graph_insert_edge_last(gr, n1, n2) ==
    [gr EXCEPT !.values[n1].adjacent_nodes = Append(@, n2)]

\* dlist_insert(n1->adjacent_nodes, n2, dlist_first(n1->adjacent_nodes))
graph_insert_edge(gr, n1, n2) ==
    [gr EXCEPT !.values[n1].adjacent_nodes = <<n2>> \o @]

graph_neighbours(gr, n) == gr.values[n].adjacent_nodes

\* the names of the stored nodes
UsedNames(gr) ==
    IF gr.nodes = NULL THEN {} ELSE {gr.values[i].name : i \in 1..gr.node_amount}

(***************************************************************************)
(* is_connected.c: find_path.  A queue is the sequence of its elements,    *)
(* front first.  The trace of a call lists what the call did, in order.    *)
(***************************************************************************)

Ev(op, n) == [op |-> op, node |-> n]

\* the loop of find_path that copies neighbourSet: every element is inserted
\* at dlist_first(neighbourSetCopy)
RECURSIVE CopyNeighbourSet(_, _)
CopyNeighbourSet(neighbourSet, neighbourSetCopy) ==
    IF neighbourSet = <<>>
    THEN neighbourSetCopy
    ELSE CopyNeighbourSet(Tail(neighbourSet), <<Head(neighbourSet)>> \o neighbourSetCopy)

\* variant: the node is marked seen but not put in the queue
visit_node_no_enqueue(st, n) ==
    IF ~graph_node_is_seen(st.g, n)
    THEN [st EXCEPT !.g = graph_node_set_seen(st.g, n, TRUE)]
    ELSE st

\* st is the state of a running find_path: graph, queue, trace
visit_node(st, n) ==
    IF ~graph_node_is_seen(st.g, n)
    THEN [st EXCEPT !.g = graph_node_set_seen(st.g, n, TRUE),
                    !.q = Append(st.q, n),
                    !.trace = Append(st.trace, Ev("enqueue", n))]
    ELSE st

\* variant: the queue is killed, the seen flags are left as they are
destination_found_no_reset(st) ==
    [g |-> st.g,
     ret |-> TRUE,
     trace |-> st.trace \o <<Ev("queue_kill", 0)>>]

\* graph_reset_seen(g), queue_kill(q), return true
destination_found(st) ==
    [g |-> graph_reset_seen(st.g),
     ret |-> TRUE,
     trace |-> st.trace \o <<Ev("reset_seen", 0), Ev("queue_kill", 0)>>]

\* variant of the inner while loop: the copy is not killed when a neighbour
\* is the destination
RECURSIVE ScanNeighbours_no_kill_when_found(_, _, _, _)
ScanNeighbours_no_kill_when_found(st, dest, neighbourSetCopy, p) ==
    IF p > Len(neighbourSetCopy)
    THEN [st EXCEPT !.trace = Append(@, Ev("dlist_kill", 0))]
    ELSE LET neighbourNode == neighbourSetCopy[p]
             examined == [st EXCEPT !.trace = Append(@, Ev("examine", neighbourNode))]
         IN  IF nodes_are_equal(st.g.values[neighbourNode], st.g.values[dest])
             THEN [examined EXCEPT !.found = TRUE]
             ELSE ScanNeighbours_no_kill_when_found(visit_node(examined, neighbourNode),
                                                    dest, neighbourSetCopy, p + 1)

\* the inner while loop: the scan of neighbourSetCopy from position p
RECURSIVE ScanNeighbours(_, _, _, _)
ScanNeighbours(st, dest, neighbourSetCopy, p) ==
    IF p > Len(neighbourSetCopy)
    THEN [st EXCEPT !.trace = Append(@, Ev("dlist_kill", 0))]
    ELSE LET neighbourNode == neighbourSetCopy[p]
             examined == [st EXCEPT !.trace = Append(@, Ev("examine", neighbourNode))]
         IN  IF nodes_are_equal(st.g.values[neighbourNode], st.g.values[dest])
             THEN [examined EXCEPT !.found = TRUE,
                                   !.trace = Append(@, Ev("dlist_kill", 0))]
             ELSE ScanNeighbours(visit_node(examined, neighbourNode), dest,
                                 neighbourSetCopy, p + 1)

\* the outer while loop
RECURSIVE SearchLoop(_, _)
SearchLoop(st, dest) ==
    IF st.q = <<>>
    THEN [g |-> graph_reset_seen(st.g),
          ret |-> FALSE,
          trace |-> st.trace \o <<Ev("queue_kill", 0), Ev("reset_seen", 0)>>]
    ELSE LET newNode == Head(st.q)
             neighbourSetCopy == CopyNeighbourSet(graph_neighbours(st.g, newNode), <<>>)
             dequeued == [st EXCEPT !.q = Tail(@),
                                    !.trace = @ \o <<Ev("dequeue", newNode),
                                                     Ev("dlist_empty", newNode)>>]
             scanned == ScanNeighbours(dequeued, dest, neighbourSetCopy, 1)
         IN  IF scanned.found
             THEN destination_found(scanned)
             ELSE SearchLoop(scanned, dest)

\* variant: a query from a node to itself is answered without a search
find_path_same_node_true(gr, src, dest) ==
    IF src = dest
    THEN [g |-> gr, ret |-> TRUE, trace |-> <<>>]
    ELSE SearchLoop([g |-> graph_node_set_seen(gr, src, TRUE),
                     q |-> <<src>>,
                     found |-> FALSE,
                     trace |-> <<Ev("enqueue", src)>>],
                    dest)

\* variant: the source is put in the queue without being marked seen
find_path_source_unseen(gr, src, dest) ==
    SearchLoop([g |-> gr,
                q |-> <<src>>,
                found |-> FALSE,
                trace |-> <<Ev("enqueue", src)>>],
               dest)

find_path(gr, src, dest) ==
    SearchLoop([g |-> graph_node_set_seen(gr, src, TRUE),
                q |-> <<src>>,
                found |-> FALSE,
                trace |-> <<Ev("enqueue", src)>>],
               dest)

(***************************************************************************)
(* is_connected.c: characters and strings of the loader.                   *)
(***************************************************************************)

DigitChars == <<"0", "1", "2", "3", "4", "5", "6", "7", "8", "9">>

Letters ==
    {"A", "B", "C", "D", "E", "F", "G", "H", "I", "J", "K", "L", "M",
     "N", "O", "P", "Q", "R", "S", "T", "U", "V", "W", "X", "Y", "Z",
     "a", "b", "c", "d", "e", "f", "g", "h", "i", "j", "k", "l", "m",
     "n", "o", "p", "q", "r", "s", "t", "u", "v", "w", "x", "y", "z"}

\* info_from_file[0] >= '0' && info_from_file[0] <= '9'
IsDigit(c) == \E i \in 1..Len(DigitChars) : DigitChars[i] = c

DigitValue(c) == (CHOOSE i \in 1..Len(DigitChars) : DigitChars[i] = c) - 1

isalnum(c) == c \in Letters \/ IsDigit(c)

isspace(c) == c \in {" ", "\t", "\n", "\r", "\f"}

\* variant: the conversion stops after the first digit
strtol_one_digit(s, acc) == DigitValue(Head(s))

\* strtol(s, NULL, 10) of a string that begins with a digit: the value of the
\* leading run of digits, acc being the value read so far
RECURSIVE strtol(_, _)
strtol(s, acc) ==
    IF s # <<>> /\ IsDigit(Head(s))
    THEN strtol(Tail(s), 10 * acc + DigitValue(Head(s)))
    ELSE acc

\* the white space a %s conversion skips
RECURSIVE SkipSpace(_)
SkipSpace(s) == IF s # <<>> /\ isspace(Head(s)) THEN SkipSpace(Tail(s)) ELSE s

\* the characters a %s conversion stores: up to the next white space
RECURSIVE TakeToken(_)
TakeToken(s) ==
    IF s # <<>> /\ ~isspace(Head(s)) THEN <<Head(s)>> \o TakeToken(Tail(s)) ELSE <<>>

\* sscanf(info_from_file, "%s%s", ...): the tokens converted, at most two
sscanf(line) ==
    LET s1 == SkipSpace(line)
        t1 == TakeToken(s1)
        s2 == SkipSpace(SubSeq(s1, Len(t1) + 1, Len(s1)))
    IN  IF s1 = <<>> THEN <<>>
        ELSE IF s2 = <<>> THEN <<t1>>
        ELSE <<t1, TakeToken(s2)>>

\* What a char[41] that sscanf did not write may hold: nothing, a name from
\* an earlier use of the stack, bytes that are no name, more than 40 letters.
Indeterminate == {<<>>, <<"C">>, <<"-">>, [i \in 1..MAX_NODE_CHAR_LENGTH |-> "y"]}

\* Where the compiler places src[41] and dest[41] of add_edges_to_list.
Layouts == {"src_dest", "dest_src", "apart"}

From(s, i) == SubSeq(s, i, Len(s))

TooLong(s) == Len(s) > MAX_NODE_NAME_LENGTH

\* The strings src and dest hold, as validate_node_names and create_edge read
\* them (up to the first NUL), after sscanf has stored the tokens.  %s has no
\* field width: a token of more than 40 characters runs over the end of its
\* array, into the other array when that one is placed right behind it.
\* junk is what the arrays held before.
BuffersAfterScan(toks, layout, junk) ==
    LET n  == Len(toks)
        t1 == IF n >= 1 THEN toks[1] ELSE junk.src
        t2 == IF n >= 2 THEN toks[2] ELSE junk.dest
    IN  CASE layout = "src_dest" /\ n >= 1 /\ TooLong(t1) ->
                 IF n = 2
                 THEN [src |-> SubSeq(t1, 1, MAX_NODE_CHAR_LENGTH) \o t2, dest |-> t2]
                 ELSE [src |-> t1, dest |-> From(t1, MAX_NODE_CHAR_LENGTH + 1)]
          [] layout = "dest_src" /\ n = 2 /\ TooLong(t2) ->
                 [src |-> From(t2, MAX_NODE_CHAR_LENGTH + 1), dest |-> t2]
          [] OTHER -> [src |-> t1, dest |-> t2]

\* every outcome of the sscanf call on a line
ScanOutcomes(line) ==
    {BuffersAfterScan(sscanf(line), layout, [src |-> a, dest |-> b]) :
        layout \in Layouts, a \in Indeterminate, b \in Indeterminate}

AllAlnum(s) == \A i \in 1..Len(s) : isalnum(s[i])

\* variant: the two comparisons with MAX_NODE_NAME_LENGTH are left out
validate_node_names_no_length(src, dest) ==
    /\ AllAlnum(src)
    /\ AllAlnum(dest)

\* both loops return false at the first character that is not alphanumeric;
\* then the two lengths are compared with MAX_NODE_NAME_LENGTH
validate_node_names(src, dest) ==
    /\ AllAlnum(src)
    /\ AllAlnum(dest)
    /\ ~(Len(src) > MAX_NODE_NAME_LENGTH)
    /\ ~(Len(dest) > MAX_NODE_NAME_LENGTH)

\* memcpy of MAX_NODE_CHAR_LENGTH bytes, then a NUL in the last byte
CopyName(s) ==
    IF Len(s) > MAX_NODE_CHAR_LENGTH - 1 THEN SubSeq(s, 1, MAX_NODE_CHAR_LENGTH - 1) ELSE s

create_edge(src, dest) == [src |-> CopyName(src), dest |-> CopyName(dest)]

\* list_insert(l, create_edge(src, dest), current_position), the position
\* returned being used for the next call: the record is appended
list_insert(lst, edge) == Append(lst, edge)

\* the line is an edge line for add_edges_to_list: no comment, not blank
IsEdgeLine(line) == line # <<>> /\ line[1] # "#" /\ line[1] # "\n"

\* the line get_number_of_edges takes the edge count from
IsCountLine(line) == line # <<>> /\ IsDigit(line[1]) /\ line[Len(line)] = "\n"

\* the character '\0'
NUL == "NUL"

\* info_from_file[file_size - 1] = '\0'
Terminate(line) == [line EXCEPT ![Len(line)] = NUL]

\* what get_number_of_edges returns for the count line it found
CountResult(count) == IF count > 0 THEN count * 2 ELSE 0

\* what info_from_file returns
InfoResult(amount) == amount * 2

(***************************************************************************)
(* is_connected.c: create_graph, one iteration of its loop.                *)
(***************************************************************************)

FindOrInsert(gr, s) ==
    IF Found(graph_find_node(gr, s)) THEN gr ELSE graph_insert_node(gr, s)

\* variant: the edge is inserted in both directions
create_graph_record_both_ways(gr, edge) ==
    LET g1   == FindOrInsert(gr, edge.src)
        src  == graph_find_node(g1, edge.src)
        g2   == FindOrInsert(g1, edge.dest)
        dest == graph_find_node(g2, edge.dest)
    IN  graph_insert_edge(graph_insert_edge(g2, src, dest), dest, src)

\* variant: the destination is found or inserted before the source
create_graph_record_dest_first(gr, edge) ==
    LET g1   == FindOrInsert(gr, edge.dest)
        dest == graph_find_node(g1, edge.dest)
        g2   == FindOrInsert(g1, edge.src)
        src  == graph_find_node(g2, edge.src)
    IN  graph_insert_edge(g2, src, dest)

\* find or insert the source, find or insert the destination, insert the edge
create_graph_record(gr, edge) ==
    LET g1   == FindOrInsert(gr, edge.src)
        src  == graph_find_node(g1, edge.src)
        g2   == FindOrInsert(g1, edge.dest)
        dest == graph_find_node(g2, edge.dest)
    IN  graph_insert_edge(g2, src, dest)

\* an insertion of this iteration writes outside the array
RecordOverflows(gr, edge) ==
    LET g1 == FindOrInsert(gr, edge.src)
    IN  \/ ~Found(graph_find_node(gr, edge.src)) /\ ~InsertInBounds(gr)
        \/ ~Found(graph_find_node(g1, edge.dest)) /\ ~InsertInBounds(g1)

(***************************************************************************)
(* The files the loader is run on: the lines fgets can return.             *)
(***************************************************************************)

LongName == [i \in 1..MAX_NODE_CHAR_LENGTH |-> "x"]

EndOfFile == <<>>

CountPhaseLines ==
    { <<"#", " ", "x", "\n">>,
      <<"A", " ", "B", "\n">>,
      <<"0", "\n">>,
      <<"1", "2", "\n">>,
      <<"2", "\n">>,
      <<"2">> }

EdgePhaseLines ==
    { <<"#", " ", "x", "\n">>,
      <<"\n">>,
      <<"A", " ", "B", "\n">>,
      <<"B", " ", "C", "\n">>,
      <<"B", " ", "A">>,
      <<"A", "\n">>,
      <<" ", "\n">>,
      <<"a", "-", "b", " ", "C", "\n">>,
      LongName \o <<" ", "B", "\n">>,
      <<"A", " ">> \o LongName \o <<"\n">>,
      LongName \o <<"\n">> }

\* fgets(info_from_file, MAX_INPUT_LENGTH, fp) returns r; every path of the
\* program closes the stream, or exits, at the end of the file
Fgets(r) ==
    IF r = EndOfFile
    THEN feof' = FALSE /\ nread' = 0
    ELSE /\ ~feof
         /\ nread < MaxLines
         /\ nread' = nread + 1
         /\ feof' = (r[Len(r)] # "\n")

(***************************************************************************)
(* The program: main, prepare_graph, info_from_file and the query loop.    *)
(***************************************************************************)

\* variant: the graph is created before the file is read
prepare_graph_steps_graph_first ==
    <<"graph_empty", "info_from_file", "create_graph", "list_kill">>

\* the calls of prepare_graph, in order
prepare_graph_steps == <<"info_from_file", "graph_empty", "create_graph", "list_kill">>

StepAfter(step) ==
    LET i == CHOOSE k \in 1..Len(prepare_graph_steps) : prepare_graph_steps[k] = step
    IN  IF i < Len(prepare_graph_steps) THEN prepare_graph_steps[i + 1] ELSE "ready"

Init ==
    /\ pc = prepare_graph_steps[1]
    /\ g = NoGraph
    /\ l = <<>>
    /\ info = <<>>
    /\ count_info = <<>>
    /\ feof = FALSE
    /\ nread = 0
    /\ edgeCount = 0
    /\ edges_amount = 0
    /\ max_nodes = 0
    /\ lpos = 1
    /\ call = NoCall
    /\ table = NoTable /\ freed = {} /\ stack = NoStack

\* info_from_file up to fopen: argc < 2 or a file that cannot be opened
OpenFile ==
    /\ pc = "info_from_file"
    /\ \E opened \in BOOLEAN :
          pc' = IF opened THEN "get_number_of_edges" ELSE "failed"
    /\ UNCHANGED <<g, l, info, count_info, feof, nread, edgeCount, edges_amount, max_nodes, lpos, call>>
    /\ UNCHANGED libVars

\* one iteration of the loop of get_number_of_edges; after the loop its
\* return and the test of info_from_file on the value returned
CountLine ==
    /\ pc = "get_number_of_edges"
    /\ \E r \in CountPhaseLines \cup {EndOfFile} :
          /\ Fgets(r)
          /\ IF r = EndOfFile
             THEN /\ edges_amount' = CountResult(0)
                  /\ pc' = "failed"
                  /\ UNCHANGED <<count_info, edgeCount>>
             ELSE IF IsCountLine(r)
             THEN /\ count_info' = Terminate(r)
                  /\ edgeCount' = strtol(count_info', 0)
                  /\ edges_amount' = CountResult(edgeCount')
                  /\ pc' = IF edges_amount' = 0 THEN "failed" ELSE "add_edges_to_list"
             ELSE /\ count_info' = r
                  /\ UNCHANGED <<pc, edgeCount, edges_amount>>
    /\ UNCHANGED <<g, l, info, max_nodes, lpos, call>>
    /\ UNCHANGED libVars

\* one iteration of the loop of add_edges_to_list; at the end of the file the
\* return of add_edges_to_list and of info_from_file
EdgeLine ==
    /\ pc = "add_edges_to_list"
    /\ \E r \in EdgePhaseLines \cup {EndOfFile} :
          /\ Fgets(r)
          /\ IF r = EndOfFile
             THEN /\ max_nodes' = InfoResult(edges_amount)
                  /\ pc' = StepAfter("info_from_file")
                  /\ info' = <<>>
                  /\ l' = l
             ELSE /\ info' = r
                  /\ max_nodes' = max_nodes
                  /\ IF IsEdgeLine(r)
                     THEN \E b \in ScanOutcomes(r) :
                             IF validate_node_names(b.src, b.dest)
                             THEN /\ l' = list_insert(l, create_edge(b.src, b.dest))
                                  /\ pc' = pc
                             ELSE /\ l' = l
                                  /\ pc' = "failed"
                     ELSE UNCHANGED <<l, pc>>
    /\ UNCHANGED <<g, count_info, edgeCount, edges_amount, lpos, call>>
    /\ UNCHANGED libVars

GraphEmpty ==
    /\ pc = "graph_empty"
    /\ g' = graph_empty(max_nodes)
    /\ pc' = StepAfter("graph_empty")
    /\ UNCHANGED <<l, info, count_info, feof, nread, edgeCount, edges_amount, max_nodes, lpos, call>>
    /\ UNCHANGED libVars

\* one iteration of the loop of create_graph, or its return
CreateGraph ==
    /\ pc = "create_graph"
    /\ IF lpos > Len(l)
       THEN /\ pc' = StepAfter("create_graph")
            /\ UNCHANGED <<g, lpos>>
       ELSE \/ /\ g' = create_graph_record(g, l[lpos])
               /\ lpos' = lpos + 1
               /\ pc' = pc
            \/ /\ RecordOverflows(g, l[lpos])
               /\ pc' = "crashed"
               /\ UNCHANGED <<g, lpos>>
    /\ UNCHANGED <<l, info, count_info, feof, nread, edgeCount, edges_amount, max_nodes, call>>
    /\ UNCHANGED libVars

ListKill ==
    /\ pc = "list_kill"
    /\ l' = <<>>
    /\ lpos' = 1
    /\ pc' = StepAfter("list_kill")
    /\ UNCHANGED <<g, info, count_info, feof, nread, edgeCount, edges_amount, max_nodes, call>>
    /\ UNCHANGED libVars

\* the call record of a find_path call on graph gr
CallRecord(gr, src, dest, r) ==
    [op |-> "find_path", src |-> src, dest |-> dest, before |-> gr,
     ret |-> r.ret, trace |-> r.trace,
     nth |-> IF call.op = "find_path" THEN 2 ELSE 1]

\* check_the_input has read two names of stored nodes; find_and_show_path
FindAndShowPath(origin, destination) ==
    /\ pc = "ready"
    /\ LET scource_node == graph_find_node(g, origin)
           destination_node == graph_find_node(g, destination)
       IN  /\ Found(scource_node) /\ Found(destination_node)
           /\ LET r == find_path(g, scource_node, destination_node)
              IN  /\ g' = r.g
                  /\ call' = CallRecord(g, scource_node, destination_node, r)
    /\ UNCHANGED <<pc, l, info, count_info, feof, nread, edgeCount, edges_amount, max_nodes, lpos>>
    /\ UNCHANGED libVars

\* the user enters quit: graph_kill and the end of main
Quit ==
    /\ pc = "ready"
    /\ g' = NoGraph
    /\ call' = NoCall
    /\ pc' = "done"
    /\ UNCHANGED <<l, info, count_info, feof, nread, edgeCount, edges_amount, max_nodes, lpos>>
    /\ UNCHANGED libVars

Next ==
    \/ OpenFile
    \/ CountLine
    \/ EdgeLine
    \/ GraphEmpty
    \/ CreateGraph
    \/ ListKill
    \/ \E origin, destination \in UsedNames(g) : FindAndShowPath(origin, destination)
    \/ Quit

Spec == Init /\ [][Next]_vars

(***************************************************************************)
(* Harness of the graph module: a client that creates a graph and calls    *)
(* graph_insert_node, graph_insert_edge and find_path in any order.        *)
(***************************************************************************)

NameOrder == <<  <<"A">>, <<"B">>, <<"C">>  >>

NodeNames == {NameOrder[i] : i \in 1..Len(NameOrder)}

\* Names are only ever compared for equality, so the harness introduces new
\* names in the order of NameOrder: a name already stored, or the next new one.
NextNames(gr) ==
    UsedNames(gr) \cup
    {NameOrder[i] : i \in 1..(Cardinality(UsedNames(gr)) + 1) \cap 1..Len(NameOrder)}

RECURSIVE AdjacentSum(_, _)
AdjacentSum(gr, i) ==
    IF i = 0 THEN 0 ELSE Len(gr.values[i].adjacent_nodes) + AdjacentSum(gr, i - 1)

EdgeCount(gr) == AdjacentSum(gr, gr.node_amount)

InitGraph ==
    /\ pc = "api"
    /\ max_nodes \in {1, 2}
    /\ g = graph_empty(max_nodes)
    /\ call = NoCall
    /\ l = <<>>
    /\ info = <<>>
    /\ count_info = <<>>
    /\ feof = FALSE
    /\ nread = 0
    /\ edgeCount = 0
    /\ edges_amount = 0
    /\ lpos = 1
    /\ table = NoTable /\ freed = {} /\ stack = NoStack

ApiInsertNode(s) ==
    /\ pc = "api"
    /\ g.node_amount < MaxNodes
    /\ g.node_amount + EdgeCount(g) < MaxInserts
    /\ s \in NextNames(g)
    /\ \/ /\ g' = graph_insert_node(g, s)
          /\ pc' = pc
          /\ call' = [op |-> "insert_node", s |-> s, before |-> g]
       \/ /\ ~InsertInBounds(g)
          /\ g' = g
          /\ pc' = "crashed"
          /\ call' = NoCall
    /\ UNCHANGED <<l, info, count_info, feof, nread, edgeCount, edges_amount, max_nodes, lpos>>
    /\ UNCHANGED libVars

ApiInsertEdge(n1, n2) ==
    /\ pc = "api"
    /\ g.node_amount + EdgeCount(g) < MaxInserts
    /\ g' = graph_insert_edge(g, n1, n2)
    /\ call' = [op |-> "insert_edge", n1 |-> n1, n2 |-> n2, before |-> g]
    /\ UNCHANGED <<pc, l, info, count_info, feof, nread, edgeCount, edges_amount, max_nodes, lpos>>
    /\ UNCHANGED libVars

ApiFindPath(src, dest) ==
    /\ pc = "api"
    /\ LET r == find_path(g, src, dest)
       IN  /\ g' = r.g
           /\ call' = CallRecord(g, src, dest, r)
    /\ UNCHANGED <<pc, l, info, count_info, feof, nread, edgeCount, edges_amount, max_nodes, lpos>>
    /\ UNCHANGED libVars

ApiFindNode(s) ==
    /\ pc = "api"
    /\ call' = [op |-> "find_node", s |-> s, before |-> g, ret |-> graph_find_node(g, s)]
    /\ UNCHANGED <<pc, g, l, info, count_info, feof, nread, edgeCount, edges_amount, max_nodes, lpos>>
    /\ UNCHANGED libVars

NextGraph ==
    \/ \E s \in NodeNames : ApiInsertNode(s)
    \/ \E s \in NodeNames : ApiFindNode(s)
    \/ \E n1, n2 \in 1..g.node_amount : ApiInsertEdge(n1, n2)
    \/ \E src, dest \in 1..g.node_amount : ApiFindPath(src, dest)

SpecGraph == InitGraph /\ [][NextGraph]_vars

(***************************************************************************)
(* arraytable.c: the table.  A key is a pointer p to an object with the    *)
(* content c, a value is a pointer; the array of entries is the sequence   *)
(* of its slots from index 0 up to the last slot that holds a value.       *)
(***************************************************************************)

MAX_TABLE_SIZE == 80000

\* a slot is <<>> when it holds NULL and <<v>> when it holds the value v
array_1d_has_value(a, i) == i < Len(a.values) /\ a.values[i + 1] # <<>>

array_1d_inspect_value(a, i) == Head(a.values[i + 1])

\* the slots without the empty slots at the end
RECURSIVE TrimSlots(_)
TrimSlots(vs) ==
    IF vs # <<>> /\ vs[Len(vs)] = <<>> THEN TrimSlots(SubSeq(vs, 1, Len(vs) - 1)) ELSE vs

\* slot holds <<v>>, or <<>> to store NULL
array_1d_set_value(a, slot, i) ==
    LET n == IF i + 1 > Len(a.values) THEN i + 1 ELSE Len(a.values)
    IN  [a EXCEPT !.values =
            TrimSlots([j \in 1..n |-> IF j = i + 1 THEN slot
                                      ELSE IF j <= Len(a.values) THEN a.values[j]
                                      ELSE <<>>])]

\* the compare function of the client: 0 when the keys have equal content
key_cmp_func(k1, k2) == IF k1.c = k2.c THEN 0 ELSE 1

\* kf, vf: a free function is given for the keys, for the values
table_empty(kf, vf) ==
    [entries |-> [lo |-> 0, hi |-> MAX_TABLE_SIZE, values |-> <<>>],
     key_free_func |-> kf,
     value_free_func |-> vf]

\* the slots behind Len(values) hold no value, so the scan up to the high
\* index finds a value exactly when the scan of the sequence finds one
table_is_empty(tb) ==
    \A position \in 0..(Len(tb.entries.values) - 1) :
        ~array_1d_has_value(tb.entries, position)

\* the pointers table_insert and table_remove free with an entry
FreedWith(tb, entry, key_too) ==
    (IF tb.key_free_func /\ key_too THEN {entry.key.p} ELSE {})
    \cup (IF tb.value_free_func THEN {entry.value} ELSE {})

\* the loop of table_insert from position on; st is the table and the set of
\* freed pointers
RECURSIVE InsertScan(_, _, _, _)
InsertScan(st, key, value, position) ==
    LET entry == [key |-> key, value |-> value]
    IN  IF array_1d_has_value(st.t.entries, position)
        THEN LET entry_temp == array_1d_inspect_value(st.t.entries, position)
             IN  IF key_cmp_func(entry_temp.key, key) = 0
                 THEN [t |-> [st.t EXCEPT !.entries = array_1d_set_value(@, <<entry>>, position)],
                       freed |-> st.freed \cup FreedWith(st.t, entry_temp, TRUE)]
                 ELSE InsertScan(st, key, value, position + 1)
        ELSE [st EXCEPT !.t.entries = array_1d_set_value(@, <<entry>>, position)]

\* variant: an entry with an equal key is kept and the new pair is dropped
table_insert_keep_old(st, key, value) ==
    IF \E i \in 0..(Len(st.t.entries.values) - 1) :
          /\ array_1d_has_value(st.t.entries, i)
          /\ key_cmp_func(array_1d_inspect_value(st.t.entries, i).key, key) = 0
    THEN st
    ELSE InsertScan(st, key, value, 0)

table_insert(st, key, value) == InsertScan(st, key, value, 0)

RECURSIVE LookupScan(_, _, _, _)
LookupScan(tb, key, position, latest_value) ==
    IF array_1d_has_value(tb.entries, position)
    THEN LET entry == array_1d_inspect_value(tb.entries, position)
         IN  LookupScan(tb, key, position + 1,
                        IF key_cmp_func(entry.key, key) = 0 THEN entry.value
                        ELSE latest_value)
    ELSE latest_value

table_lookup(tb, key) == LookupScan(tb, key, 0, NULL)

\* variant of the loop of table_remove: the entries behind a removed entry
\* stay where they are
RECURSIVE RemoveScanNoShift(_, _, _, _)
RemoveScanNoShift(st, key, pos, deferred_ptr) ==
    IF array_1d_has_value(st.t.entries, pos)
    THEN LET entry == array_1d_inspect_value(st.t.entries, pos)
         IN  IF key_cmp_func(entry.key, key) = 0
             THEN RemoveScanNoShift(
                      [t |-> [st.t EXCEPT !.entries = array_1d_set_value(@, <<>>, pos)],
                       freed |-> st.freed \cup FreedWith(st.t, entry, entry.key.p # key.p)],
                      key, pos + 1,
                      IF st.t.key_free_func /\ entry.key.p = key.p
                      THEN entry.key.p ELSE deferred_ptr)
             ELSE RemoveScanNoShift(st, key, pos + 1, deferred_ptr)
    ELSE IF deferred_ptr # NULL
    THEN [st EXCEPT !.freed = @ \cup {deferred_ptr}]
    ELSE st

\* the loop of table_remove from pos on, and the free of the deferred key
RECURSIVE RemoveScan(_, _, _, _, _)
RemoveScan(st, key, pos, removed_pos, deferred_ptr) ==
    IF array_1d_has_value(st.t.entries, pos)
    THEN LET entry == array_1d_inspect_value(st.t.entries, pos)
         IN  IF key_cmp_func(entry.key, key) = 0
             THEN RemoveScan(
                      [t |-> [st.t EXCEPT !.entries = array_1d_set_value(@, <<>>, pos)],
                       freed |-> st.freed \cup FreedWith(st.t, entry, entry.key.p # key.p)],
                      key, pos + 1, pos,
                      IF st.t.key_free_func /\ entry.key.p = key.p
                      THEN entry.key.p ELSE deferred_ptr)
             ELSE IF removed_pos # -1
             THEN RemoveScan(
                      [st EXCEPT !.t.entries =
                          array_1d_set_value(array_1d_set_value(@, <<entry>>, removed_pos),
                                             <<>>, pos)],
                      key, pos + 1, removed_pos + 1, deferred_ptr)
             ELSE RemoveScan(st, key, pos + 1, removed_pos, deferred_ptr)
    ELSE IF deferred_ptr # NULL
    THEN [st EXCEPT !.freed = @ \cup {deferred_ptr}]
    ELSE st

\* variant: table_remove with the loop that does not move entries
table_remove_no_shift(st, key) == RemoveScanNoShift(st, key, 0, NULL)

table_remove(st, key) == RemoveScan(st, key, 0, -1, NULL)

\* the pairs print_func is called with, in order
RECURSIVE PrintScan(_, _)
PrintScan(tb, position) ==
    IF position > Len(tb.entries.values) - 1
    THEN <<>>
    ELSE (IF array_1d_has_value(tb.entries, position)
          THEN <<array_1d_inspect_value(tb.entries, position)>>
          ELSE <<>>)
         \o PrintScan(tb, position + 1)

table_print(tb) == PrintScan(tb, tb.entries.lo)

(***************************************************************************)
(* Client of the table: creates a table and calls table_insert,             *)
(* table_remove, table_lookup, table_print and table_is_empty in any order. *)
(***************************************************************************)

\* the keys of the client: k1 and k2 have equal content
TableKeys ==
    { [p |-> "k1", c |-> "a"], [p |-> "k2", c |-> "a"],
      [p |-> "k3", c |-> "b"], [p |-> "k4", c |-> "c"] }

TableValues == {"v1", "v2", "v3"}

\* the pointers the entries of the table hold
StoredPointers(tb) ==
    UNION {{table_print(tb)[i].key.p, table_print(tb)[i].value} :
              i \in 1..Len(table_print(tb))}

\* a pointer the client may hand to the table: one that has not been freed
Usable(ptr) == ptr \notin freed

\* an entry of the table holds a pointer that has been freed
Dangling(tb, fr) == StoredPointers(tb) \cap fr # {}

InitTable ==
    /\ pc = "table"
    /\ \E f \in BOOLEAN : table = table_empty(f, f)
    /\ freed = {}
    /\ stack = NoStack
    /\ call = NoCall
    /\ g = NoGraph
    /\ l = <<>>
    /\ info = <<>>
    /\ count_info = <<>>
    /\ feof = FALSE
    /\ nread = 0
    /\ edgeCount = 0
    /\ edges_amount = 0
    /\ max_nodes = 0
    /\ lpos = 1

TableInsert(key, value) ==
    /\ pc = "table"
    /\ Usable(key.p)
    /\ Usable(value)
    /\ LET r == table_insert([t |-> table, freed |-> freed], key, value)
       IN  /\ table' = r.t
           /\ freed' = r.freed
    /\ call' = [op |-> "table_insert", key |-> key, value |-> value,
                before |-> table, freed_before |-> freed]
    /\ UNCHANGED <<pc, stack>>
    /\ UNCHANGED progVars

TableRemove(key) ==
    /\ pc = "table"
    /\ Usable(key.p)
    /\ LET r == table_remove([t |-> table, freed |-> freed], key)
       IN  /\ table' = r.t
           /\ freed' = r.freed
    /\ call' = [op |-> "table_remove", key |-> key,
                before |-> table, freed_before |-> freed]
    /\ UNCHANGED <<pc, stack>>
    /\ UNCHANGED progVars

TableLookup(key) ==
    /\ pc = "table"
    /\ Usable(key.p)
    /\ call' = [op |-> "table_lookup", key |-> key, ret |-> table_lookup(table, key),
                before |-> table, freed_before |-> freed]
    /\ UNCHANGED <<pc, table, freed, stack>>
    /\ UNCHANGED progVars

TablePrint ==
    /\ pc = "table"
    /\ call' = [op |-> "table_print", pairs |-> table_print(table),
                empty |-> table_is_empty(table),
                before |-> table, freed_before |-> freed]
    /\ UNCHANGED <<pc, table, freed, stack>>
    /\ UNCHANGED progVars

\* a call on a table with an entry whose key or value has been freed reads or
\* frees that memory: the call goes on as if the memory were intact (the
\* actions above) or the program crashes
TableUseAfterFree ==
    /\ pc = "table"
    /\ Dangling(table, freed)
    /\ pc' = "crashed"
    /\ call' = [op |-> "crashed", before |-> table, freed_before |-> freed]
    /\ UNCHANGED <<table, freed, stack>>
    /\ UNCHANGED progVars

NextTable ==
    \/ \E key \in TableKeys, value \in TableValues : TableInsert(key, value)
    \/ \E key \in TableKeys : TableRemove(key)
    \/ \E key \in TableKeys : TableLookup(key)
    \/ TablePrint
    \/ TableUseAfterFree

SpecTable == InitTable /\ [][NextTable]_vars

(***************************************************************************)
(* The stacks of int_stack.h and stack.h, as the test programs               *)
(* int_stack_test.c and stack_test.c use them.  The int_stack holds its      *)
(* values in an array with the top at the end; the stack of pointers holds   *)
(* them in a list with the top at the front.                                 *)
(***************************************************************************)

\* the number of values the client has on a stack at most
MaxStack == 4

stack_empty(kind) == [kind |-> kind, elements |-> <<>>]

stack_is_empty(st) == st.elements = <<>>

stack_push(st, v) ==
    IF st.kind = "int_stack"
    THEN [st EXCEPT !.elements = Append(@, v)]
    ELSE [st EXCEPT !.elements = <<v>> \o @]

\* variant: stack_pop removes the value that was pushed first
stack_pop_oldest(st) ==
    IF stack_is_empty(st)
    THEN st
    ELSE IF st.kind = "int_stack"
    THEN [st EXCEPT !.elements = Tail(@)]
    ELSE [st EXCEPT !.elements = SubSeq(@, 1, Len(@) - 1)]

\* stack_pop of an empty stack returns the stack
stack_pop(st) ==
    IF stack_is_empty(st)
    THEN st
    ELSE IF st.kind = "int_stack"
    THEN [st EXCEPT !.elements = SubSeq(@, 1, Len(@) - 1)]
    ELSE [st EXCEPT !.elements = Tail(@)]

\* for a stack that is not empty
stack_top(st) ==
    IF st.kind = "int_stack" THEN st.elements[Len(st.elements)] ELSE Head(st.elements)

\* the values the tests push: ints on the int_stack, pointers on the stack
StackValues(kind) ==
    IF kind = "int_stack" THEN {0, 1, 2} ELSE {"value1", "value2", "value3"}

\* the test starts with stack_empty; pushed is the client's record of the
\* values it has pushed and not popped, oldest first
InitStack ==
    /\ pc = "stack"
    /\ \E kind \in {"int_stack", "stack"} : stack = stack_empty(kind)
    /\ call = [op |-> "stack_empty", pushed |-> <<>>]
    /\ table = NoTable
    /\ freed = {}
    /\ g = NoGraph
    /\ l = <<>>
    /\ info = <<>>
    /\ count_info = <<>>
    /\ feof = FALSE
    /\ nread = 0
    /\ edgeCount = 0
    /\ edges_amount = 0
    /\ max_nodes = 0
    /\ lpos = 1

StackPush(v) ==
    /\ pc = "stack"
    /\ Len(call.pushed) < MaxStack
    /\ stack' = stack_push(stack, v)
    /\ call' = [op |-> "stack_push", pushed |-> Append(call.pushed, v)]
    /\ UNCHANGED <<pc, table, freed>>
    /\ UNCHANGED progVars

StackPop ==
    /\ pc = "stack"
    /\ stack' = stack_pop(stack)
    /\ call' = [op |-> "stack_pop",
                pushed |-> IF call.pushed = <<>> THEN <<>>
                           ELSE SubSeq(call.pushed, 1, Len(call.pushed) - 1)]
    /\ UNCHANGED <<pc, table, freed>>
    /\ UNCHANGED progVars

StackTop ==
    /\ pc = "stack"
    /\ ~stack_is_empty(stack)
    /\ call' = [op |-> "stack_top", pushed |-> call.pushed, ret |-> stack_top(stack)]
    /\ UNCHANGED <<pc, stack, table, freed>>
    /\ UNCHANGED progVars

NextStack ==
    \/ \E v \in StackValues(stack.kind) : StackPush(v)
    \/ StackPop
    \/ StackTop

SpecStack == InitStack /\ [][NextStack]_vars

(***************************************************************************)
(* Properties.                                                             *)
(***************************************************************************)

IsCall == call.op = "find_path"

DistinctNames(gr) ==
    \A i, j \in 1..gr.node_amount :
        i # j => gr.values[i].name # gr.values[j].name

AllUnseen(gr) == \A i \in 1..gr.node_amount : ~gr.values[i].seen

\* the graph with the seen flags its nodes are created with
FreshSeen(gr) ==
    [gr EXCEPT !.values = [i \in 1..Len(@) |-> [@[i] EXCEPT !.seen = FALSE]]]

\* the nodes an edge leads to from node n
EdgeTargets(gr, n) ==
    {gr.values[n].adjacent_nodes[i] : i \in 1..Len(gr.values[n].adjacent_nodes)}

\* the nodes at the end of a directed walk of 1..k edges from node a
RECURSIVE ReachedWithin(_, _, _)
ReachedWithin(gr, a, k) ==
    IF k <= 1
    THEN EdgeTargets(gr, a)
    ELSE LET R == ReachedWithin(gr, a, k - 1)
         IN  R \cup UNION {EdgeTargets(gr, n) : n \in R}

WalkExists(gr, a, b) == b \in ReachedWithin(gr, a, gr.node_amount)

EnqueueCount(trace) == Cardinality({i \in 1..Len(trace) : trace[i].op = "enqueue"})

\* C1: on a graph with pairwise distinct names and all seen flags false,
\* find_path(g, a, b) with a # b returns true exactly when a directed walk of
\* one or more edges leads from a to b.
C1_FindPathIffWalk ==
    (IsCall /\ call.src # call.dest
            /\ DistinctNames(call.before) /\ AllUnseen(call.before))
    => (call.ret <=> WalkExists(call.before, call.src, call.dest))

\* a call that found a destination which is no direct neighbour of the source
C1_Witness ==
    /\ IsCall /\ call.src # call.dest /\ call.ret
    /\ DistinctNames(call.before) /\ AllUnseen(call.before)
    /\ call.dest \notin EdgeTargets(call.before, call.src)

\* C2: after every find_path call, returning true or false, the seen flag of
\* every stored node is false.
C2_SeenClearedAfterCall == IsCall => AllUnseen(g)

\* a call that returned true after it had marked and enqueued a further node
C2_Witness == IsCall /\ call.ret /\ EnqueueCount(call.trace) >= 2 /\ AllUnseen(g)

\* C3: every find_path call of a sequence of calls returns what the same call
\* returns as the first query on the graph, whose seen flags are all false.
C3_QueriesIndependent ==
    IsCall => (call.ret <=> find_path(FreshSeen(call.before), call.src, call.dest).ret)

\* a call that follows another call on the same graph and finds its destination
C3_Witness ==
    /\ IsCall /\ call.nth = 2 /\ call.ret
    /\ EnqueueCount(call.trace) >= 2

\* C4: graph_is_empty(g) is true exactly when the node count of g is zero.
C4_IsEmptyIffNoNodes ==
    g # NoGraph => (graph_is_empty(g) <=> g.node_amount = 0)

\* C5: the node count of a graph created with capacity C never exceeds C.
C5_NodeCountWithinCapacity ==
    g # NoGraph => g.node_amount <= g.hi

\* C6: the graph of a file with edge count E > 0 is created with capacity 2*E.
C6_CapacityTwiceEdgeCount ==
    g # NoGraph => g.hi = 2 * edgeCount

InLoader == pc \in {"info_from_file", "get_number_of_edges", "add_edges_to_list"}

\* C7: while the file is read and validated, and when loading fails, no graph
\* has been created: nothing is inserted and no query has run.
C7_FailureBeforeGraph ==
    (InLoader \/ pc = "failed") => (g = NoGraph /\ call = NoCall)

\* the loader fails on a line after it has accepted a record
C7_Witness ==
    /\ pc = "failed" /\ l # <<>> /\ IsEdgeLine(info)
    /\ g = NoGraph

\* C8: an edge line with fewer than two tokens makes the loader fail: the
\* loader never reads on after such a line.
C8_TwoNamesRequired ==
    pc = "add_edges_to_list" => ~(IsEdgeLine(info) /\ Len(sscanf(info)) < 2)

BadName(s) == ~AllAlnum(s) \/ Len(s) > MAX_NODE_NAME_LENGTH

HasBadToken(line) == \E i \in 1..Len(sscanf(line)) : BadName(sscanf(line)[i])

\* C9: an edge line with a token that has a non-alphanumeric character or
\* more than 40 characters makes the loader fail, and both names of every
\* edge record are alphanumeric and at most 40 characters long.
C9_BadNamesRejected ==
    /\ pc = "add_edges_to_list" => ~(IsEdgeLine(info) /\ HasBadToken(info))
    /\ \A i \in 1..Len(l) : ~BadName(l[i].src) /\ ~BadName(l[i].dest)

\* the loader has failed on a line with a token of more than 40 characters
C9_Witness ==
    /\ pc = "failed" /\ IsEdgeLine(info)
    /\ \E i \in 1..Len(sscanf(info)) : Len(sscanf(info)[i]) > MAX_NODE_NAME_LENGTH

RecordNames(lst) == {lst[i].src : i \in 1..Len(lst)} \cup {lst[i].dest : i \in 1..Len(lst)}

\* the entries for node m in the adjacency list of node n
EntryCount(gr, n, m) ==
    Cardinality({i \in 1..Len(gr.values[n].adjacent_nodes) :
                    gr.values[n].adjacent_nodes[i] = m})

\* the records from the name of node n to the name of node m
RecordCount(lst, gr, n, m) ==
    Cardinality({i \in 1..Len(lst) :
                    lst[i].src = gr.values[n].name /\ lst[i].dest = gr.values[m].name})

RecordAB == [src |-> <<"A">>, dest |-> <<"B">>]

RecordBC == [src |-> <<"B">>, dest |-> <<"C">>]

\* C10: when create_graph has consumed the records, the stored names are
\* pairwise distinct and are the names of the records, every adjacency list
\* has one entry per record from its node and no other entry; for the records
\* (A,B),(B,C) there are 3 nodes, a path from A to C and none from C to A.
C10_GraphOfRecords ==
    pc = "list_kill" =>
        /\ DistinctNames(g)
        /\ UsedNames(g) = RecordNames(l)
        /\ \A n, m \in 1..g.node_amount : EntryCount(g, n, m) = RecordCount(l, g, n, m)
        /\ l = <<RecordAB, RecordBC>> =>
              /\ g.node_amount = 3
              /\ find_path(g, graph_find_node(g, <<"A">>), graph_find_node(g, <<"C">>)).ret
              /\ ~find_path(g, graph_find_node(g, <<"C">>), graph_find_node(g, <<"A">>)).ret

\* create_graph has consumed the records (A,B),(B,C)
C10_Witness ==
    /\ pc = "list_kill" /\ l = <<RecordAB, RecordBC>>
    /\ g.node_amount = 3

AfterCount == {"add_edges_to_list", "graph_empty", "create_graph", "list_kill", "ready", "done"}

\* the line begins with a digit and ends in a newline
DigitLine(line) ==
    /\ line # <<>>
    /\ line[1] \in {"0", "1", "2", "3", "4", "5", "6", "7", "8", "9"}
    /\ line[Len(line)] = "\n"

\* the number of digits a string begins with
DigitRun(s) ==
    CHOOSE k \in 0..Len(s) :
        /\ \A i \in 1..k : IsDigit(s[i])
        /\ k < Len(s) => ~IsDigit(s[k + 1])

RECURSIVE Pow10(_)
Pow10(n) == IF n = 0 THEN 1 ELSE 10 * Pow10(n - 1)

\* the decimal number formed by the first k characters of s
RECURSIVE DecimalOf(_, _)
DecimalOf(s, k) ==
    IF k = 0 THEN 0
    ELSE DigitValue(s[1]) * Pow10(k - 1) + DecimalOf(Tail(s), k - 1)

\* C11: the lines before the count line are skipped and no edge line is read
\* from them; the count line is the first line that begins with a digit and
\* ends in a newline, E is its decimal number, and the loader goes on to the
\* edge lines only with such a line found and E > 0.
C11_CountLineFirst ==
    /\ pc = "get_number_of_edges" =>
          /\ l = <<>> /\ info = <<>> /\ edgeCount = 0
          /\ count_info # <<>> => ~DigitLine(count_info)
    /\ pc \in AfterCount =>
          /\ count_info # <<>>
          /\ IsDigit(count_info[1])
          /\ count_info[Len(count_info)] = NUL
          /\ edgeCount = DecimalOf(count_info, DigitRun(count_info))
          /\ edgeCount > 0
    /\ (pc = "add_edges_to_list" /\ info = <<>>) => ~feof
    /\ (info # <<>> \/ l # <<>>) => edgeCount > 0

\* the count line 12 is found as the second line of the file
C11_Witness ==
    /\ pc = "add_edges_to_list" /\ nread = 2 /\ info = <<>>
    /\ edgeCount = 12

\* C12: graph_insert_edge(g, n1, n2) puts n2 in front of the neighbours of n1
\* whether or not n2 is among them, and no other call changes the neighbours
\* of a stored node: neighbours(g, n) lists the destinations of the
\* insert_edge calls with source n, the most recent first, duplicates kept.
C12_NeighboursNewestFirst ==
    /\ call.op = "insert_edge" =>
          /\ graph_neighbours(g, call.n1)
                = <<call.n2>> \o graph_neighbours(call.before, call.n1)
          /\ \A m \in 1..g.node_amount :
                m # call.n1 => graph_neighbours(g, m) = graph_neighbours(call.before, m)
    /\ call.op = "insert_node" =>
          /\ graph_neighbours(g, g.node_amount) = <<>>
          /\ \A m \in 1..call.before.node_amount :
                graph_neighbours(g, m) = graph_neighbours(call.before, m)
    /\ call.op \in {"find_path", "find_node"} =>
          \A m \in 1..g.node_amount :
             graph_neighbours(g, m) = graph_neighbours(call.before, m)

\* the same edge inserted twice after an edge to another node
C12_Witness ==
    /\ call.op = "insert_edge"
    /\ Len(graph_neighbours(g, call.n1)) = 3
    /\ graph_neighbours(g, call.n1)[1] = call.n2
    /\ graph_neighbours(g, call.n1)[2] = call.n2
    /\ graph_neighbours(g, call.n1)[3] # call.n2

\* C13: graph_insert_node(g, s) adds one to the node count and appends a node
\* with the name s, no neighbours and seen = false, and leaves every node
\* stored before as it was, also when a node with the name s is stored.
C13_InsertNodeAppends ==
    call.op = "insert_node" =>
        /\ g.node_amount = call.before.node_amount + 1
        /\ Len(g.values) = Len(call.before.values) + 1
        /\ g.values[g.node_amount]
              = [name |-> call.s, seen |-> FALSE, adjacent_nodes |-> <<>>]
        /\ \A i \in 1..call.before.node_amount : g.values[i] = call.before.values[i]

\* a second node with a stored name is inserted into a graph that has edges
C13_Witness ==
    /\ call.op = "insert_node"
    /\ call.s \in UsedNames(call.before)
    /\ graph_has_edges(call.before)
    /\ g.node_amount = call.before.node_amount + 1

\* the stored nodes with the name s
NodesNamed(gr, s) == {i \in 1..gr.node_amount : gr.values[i].name = s}

\* C14: graph_find_node(g, s) returns NULL exactly when no stored node has the
\* name s, else the node with that name that was inserted first, and leaves
\* the graph as it was.
C14_FindNodeFirstMatch ==
    call.op = "find_node" =>
        /\ call.ret = 0 <=> NodesNamed(call.before, call.s) = {}
        /\ call.ret # 0 =>
              /\ call.ret \in NodesNamed(call.before, call.s)
              /\ \A i \in NodesNamed(call.before, call.s) : call.ret <= i
        /\ g = call.before

\* two stored nodes have the name and neither is the first node of the graph
C14_Witness ==
    /\ call.op = "find_node"
    /\ Cardinality(NodesNamed(call.before, call.s)) = 2
    /\ call.ret = 2

\* the pairs of the table whose key compares equal to key
EqualPairs(tb, key) ==
    {i \in 1..Len(table_print(tb)) : key_cmp_func(table_print(tb)[i].key, key) = 0}

\* C15: table_insert with a key that compares equal to a stored key adds a
\* further entry, so that table_print visits both pairs, and frees neither the
\* old key nor the old value.
C15_InsertKeepsDuplicates ==
    (call.op = "table_insert" /\ EqualPairs(call.before, call.key) # {})
    => /\ Len(table_print(table)) = Len(table_print(call.before)) + 1
       /\ \A i \in 1..Len(table_print(call.before)) :
              \E j \in 1..Len(table_print(table)) :
                  table_print(table)[j] = table_print(call.before)[i]
       /\ freed = call.freed_before

\* C16: table_lookup(t, k) returns the value of the most recent table_insert
\* for a key equal to k that no table_remove of that key has followed, and
\* NULL if there is none: the lookups are NULL on the new table, an insert
\* sets the lookup of the equal keys to its value, a remove sets it to NULL,
\* either leaves the lookup of the other keys as it was, and table_lookup and
\* table_print leave the table as it was.
C16_LookupLatestInsert ==
    /\ call = NoCall =>
           \A k \in TableKeys : table_lookup(table, k) = NULL
    /\ call.op = "table_insert" =>
           \A k \in TableKeys :
               table_lookup(table, k) =
                   IF key_cmp_func(k, call.key) = 0 THEN call.value
                   ELSE table_lookup(call.before, k)
    /\ call.op = "table_remove" =>
           \A k \in TableKeys :
               table_lookup(table, k) =
                   IF key_cmp_func(k, call.key) = 0 THEN NULL
                   ELSE table_lookup(call.before, k)
    /\ call.op \in {"table_lookup", "table_print"} => table = call.before

\* an insert for the key of the first of several entries, which had another value
C16_Witness ==
    /\ call.op = "table_insert"
    /\ table_lookup(call.before, call.key) \notin {NULL, call.value}
    /\ Len(table_print(call.before)) >= 2
    /\ key_cmp_func(table_print(call.before)[1].key, call.key) = 0
    /\ table_lookup(table, call.key) = call.value

\* the pairs of a sequence of pairs whose key does not compare equal to key
OtherPairs(pairs, key) ==
    LET Other(entry) == key_cmp_func(entry.key, key) # 0
    IN  SelectSeq(pairs, Other)

\* C17: table_remove(t, k) removes every entry whose key equals k and nothing
\* else: table_lookup(k) is NULL, the lookup of every other key is what it
\* was, the remaining entries are the other entries in their order and are
\* found by table_lookup, table_print and table_is_empty, and a table without
\* k is left unchanged.
C17_RemoveOnlyKey ==
    call.op = "table_remove" =>
        /\ table_lookup(table, call.key) = NULL
        /\ \A k \in TableKeys :
               key_cmp_func(k, call.key) # 0 =>
                   table_lookup(table, k) = table_lookup(call.before, k)
        /\ table_print(table) = OtherPairs(table_print(call.before), call.key)
        /\ \A i \in 1..Len(table_print(table)) :
               table_lookup(table, table_print(table)[i].key) = table_print(table)[i].value
        /\ table_is_empty(table) <=> table_print(table) = <<>>
        /\ EqualPairs(call.before, call.key) = {} =>
               (table = call.before /\ freed = call.freed_before)

\* a remove of the first of three entries
C17_Witness ==
    /\ call.op = "table_remove"
    /\ Len(table_print(call.before)) = 3
    /\ EqualPairs(call.before, call.key) = {1}
    /\ Len(table_print(table)) = 2

\* the values stack_top returns while the stack is emptied with stack_pop
RECURSIVE Drain(_)
Drain(st) ==
    IF stack_is_empty(st) THEN <<>> ELSE <<stack_top(st)>> \o Drain(stack_pop(st))

Reversed(seq) == [i \in 1..Len(seq) |-> seq[Len(seq) + 1 - i]]

\* C18: the int_stack and the stack of pointers are LIFO under every sequence
\* of operations: stack_is_empty is true after stack_empty, and in general
\* exactly when every pushed value has been popped; stack_top returns the
\* value pushed last and not popped; popping the stack yields the values
\* pushed and not popped in reverse push order; stack_pop on an empty stack
\* gives an empty stack.
C18_StacksAreLifo ==
    pc = "stack" =>
        /\ call.op = "stack_empty" => stack_is_empty(stack)
        /\ stack_is_empty(stack) <=> call.pushed = <<>>
        /\ call.op = "stack_top" => call.ret = call.pushed[Len(call.pushed)]
        /\ Drain(stack) = Reversed(call.pushed)
        /\ stack_is_empty(stack) => stack_is_empty(stack_pop(stack))

\* a pop has left three values, not all equal, on the int_stack
C18_Witness ==
    /\ pc = "stack" /\ call.op = "stack_pop" /\ stack.kind = "int_stack"
    /\ Len(call.pushed) = 3 /\ call.pushed[1] # call.pushed[3]
    /\ Drain(stack) = Reversed(call.pushed)

StoredNames(gr) == [i \in 1..gr.node_amount |-> gr.values[i].name]

NamesOf(seq) == {seq[i] : i \in 1..Len(seq)}

\* the names of the records of lst in the order of their first appearance,
\* behind the names of acc
RECURSIVE FirstAppearance(_, _)
FirstAppearance(lst, acc) ==
    IF lst = <<>>
    THEN acc
    ELSE LET withSrc  == IF Head(lst).src \in NamesOf(acc) THEN acc
                         ELSE Append(acc, Head(lst).src)
             withDest == IF Head(lst).dest \in NamesOf(withSrc) THEN withSrc
                         ELSE Append(withSrc, Head(lst).dest)
         IN  FirstAppearance(Tail(lst), withDest)

\* the destinations of the records of lst from the name s, the last record first
RECURSIVE DestinationsNewestFirst(_, _)
DestinationsNewestFirst(lst, s) ==
    IF lst = <<>>
    THEN <<>>
    ELSE DestinationsNewestFirst(Tail(lst), s)
         \o (IF Head(lst).src = s THEN <<Head(lst).dest>> ELSE <<>>)

\* the names of the neighbours of node n, in the order of its adjacency list
NeighbourNames(gr, n) ==
    [i \in 1..Len(graph_neighbours(gr, n)) |-> gr.values[graph_neighbours(gr, n)[i]].name]

\* the records create_graph has consumed
Consumed == IF pc = "create_graph" THEN SubSeq(l, 1, lpos - 1) ELSE l

\* the graph holds the nodes and edges of the consumed records, inserted in
\* the order of the records
GraphInRecordOrder ==
    pc \in {"create_graph", "list_kill"} =>
        /\ StoredNames(g) = FirstAppearance(Consumed, <<>>)
        /\ \A n \in 1..g.node_amount :
               NeighbourNames(g, n) = DestinationsNewestFirst(Consumed, g.values[n].name)

\* add_edges_to_list changes the list only by putting the record of the line
\* it has read behind the records of the lines before, and does so for every
\* line with two valid names
RecordAppended ==
    pc = "add_edges_to_list" =>
        /\ l' # l =>
               /\ l' = Append(l, l'[Len(l')])
               /\ IsEdgeLine(info')
               /\ Len(sscanf(info')) >= 2 =>
                      l'[Len(l')] = create_edge(sscanf(info')[1], sscanf(info')[2])
        /\ (IsEdgeLine(info') /\ nread' = nread + 1 /\ Len(sscanf(info')) >= 2
                /\ validate_node_names(sscanf(info')[1], sscanf(info')[2]))
           => Len(l') = Len(l) + 1

RECURSIVE ExaminedFrom(_, _)
ExaminedFrom(trace, i) ==
    IF i > Len(trace) \/ trace[i].op \notin {"examine", "enqueue"}
    THEN <<>>
    ELSE (IF trace[i].op = "examine" THEN <<trace[i].node>> ELSE <<>>)
         \o ExaminedFrom(trace, i + 1)

IsPrefix(a, b) == Len(a) <= Len(b) /\ a = SubSeq(b, 1, Len(a))

\* C20: the neighbours of a dequeued node are examined in the order of the
\* node's adjacency list, the most recently inserted edge first: what a
\* find_path call examines after a dequeue is the front of that list.
C20_ExaminedInAdjacencyOrder ==
    IsCall =>
        \A i \in 1..Len(call.trace) :
            call.trace[i].op = "dequeue" =>
                IsPrefix(ExaminedFrom(call.trace, i + 2),
                         graph_neighbours(call.before, call.trace[i].node))

\* the events of the trace that create or release a list or a queue
Releases(trace) ==
    SelectSeq(trace, LAMBDA ev : ev.op \in {"dlist_empty", "dlist_kill"})

EventCount(trace, op) == Cardinality({i \in 1..Len(trace) : trace[i].op = op})

\* the adjacency lists of the nodes of gr
AdjacencyLists(gr) == [n \in 1..gr.node_amount |-> graph_neighbours(gr, n)]

C22_SameNodeIffCycle ==
    (IsCall /\ call.src = call.dest
            /\ DistinctNames(call.before) /\ AllUnseen(call.before))
    => (call.ret <=> WalkExists(call.before, call.src, call.src))

\* a query from a node to itself that found a cycle of two or more edges
C22_Witness ==
    /\ IsCall /\ call.src = call.dest /\ call.ret
    /\ DistinctNames(call.before) /\ AllUnseen(call.before)
    /\ call.src \notin EdgeTargets(call.before, call.src)

\* the positions of the trace where node n is put in the queue
EnqueuesOf(trace, n) == {i \in 1..Len(trace) : trace[i].op = "enqueue" /\ trace[i].node = n}

\* C23: in a find_path call on a graph whose seen flags are all false every
\* node is put in the queue at most once, the destination is never put in the
\* queue when it is not the source, and the call returns after at most as many
\* dequeues as the graph has nodes.
C23_EnqueuedAtMostOnce ==
    (IsCall /\ AllUnseen(call.before)) =>
        /\ \A n \in 1..call.before.node_amount :
               Cardinality(EnqueuesOf(call.trace, n)) <= 1
        /\ call.src # call.dest => EnqueuesOf(call.trace, call.dest) = {}
        /\ EventCount(call.trace, "dequeue") <= call.before.node_amount
        /\ EventCount(call.trace, "dequeue") <= EventCount(call.trace, "enqueue")

\* a call with two dequeues on a graph where the source has two edges to a
\* node that has an edge back to the source
C23_Witness ==
    /\ IsCall /\ AllUnseen(call.before)
    /\ \E n \in EdgeTargets(call.before, call.src) :
           /\ n # call.src
           /\ call.src \in EdgeTargets(call.before, n)
           /\ EntryCount(call.before, call.src, n) >= 2
           /\ Len(ExaminedFrom(call.trace, 4)) >= 2
    /\ EventCount(call.trace, "dequeue") = 2

\* the pointers the last table_insert or table_remove call passed to the free
\* functions
FreedByCall ==
    IF call.op = "table_insert"
    THEN table_insert([t |-> call.before, freed |-> {}], call.key, call.value).freed
    ELSE IF call.op = "table_remove"
    THEN table_remove([t |-> call.before, freed |-> {}], call.key).freed
    ELSE {}

\* C24: in a table created with key and value free functions no key or value
\* pointer stored in an entry has been passed to a free function and no
\* pointer is passed to one twice, also when table_insert is given a pointer
\* that is already stored.
C24_StoredPointersNotFreed ==
    (pc = "table" /\ table.key_free_func /\ table.value_free_func) =>
        /\ ~Dangling(table, freed)
        /\ call.op \in {"table_insert", "table_remove"} =>
               FreedByCall \cap call.freed_before = {}

====
